---- MODULE Spec2Model ----
(***************************************************************************)
(* Model of the rlox scanner (src/src/main.rs): struct Scanner, its        *)
(* scan_tokens loop and the process-wide diagnostic sink LOX.              *)
(*                                                                         *)
(* A character is a one-element string; the source text is a sequence of   *)
(* characters.  Rust measures source.len() and the slices source[a..b] in  *)
(* bytes and chars().nth(k) in characters, so every character carries its  *)
(* UTF-8 width and both units are modelled.  A panic (unwrap on None/Err,  *)
(* a bad slice) ends the run in pc = "panicked".                           *)
(***************************************************************************)
EXTENDS Integers, Sequences, FiniteSets, TLC

VARIABLES source, tokens, start, current, line, had_error, reported, pc, runs,
          iterations

vars ==
    <<source, tokens, start, current, line, had_error, reported, pc, runs,
      iterations>>

(***************************************************************************)
(* Bounds of the model.                                                    *)
(***************************************************************************)
\* longest source of the general family
MaxLen == 4
\* longest source of the operator family
MaxOpLen == 3
\* longest source of the punctuation family
MaxPunctLen == 2
\* longest source of the digit family (an i32 overflows at 10 digits)
MaxDigits == 10
\* calls of run() in one process, where a caller scans more than once
MaxRuns == 2

(***************************************************************************)
(* Characters.                                                             *)
(***************************************************************************)
\* '\0', the sentinel peek and peek_next return at end
NUL == "NUL"
\* Option::None, the result of chars().nth(k) past the last character
None == "None"
\* marks the result of an operation that panicked
Panic == "Panic"
\* a two-byte character (e with acute accent)
EAcute == "U+00E9"

Digits == {"0", "1", "2", "3", "4", "5", "6", "7", "8", "9"}

Lower == {"a", "b", "c", "d", "e", "f", "g", "h", "i", "j", "k", "l", "m",
          "n", "o", "p", "q", "r", "s", "t", "u", "v", "w", "x", "y", "z"}

Upper == {"A", "B", "C", "D", "E", "F", "G", "H", "I", "J", "K", "L", "M",
          "N", "O", "P", "Q", "R", "S", "T", "U", "V", "W", "X", "Y", "Z"}

\* char::len_utf8 of the characters the sources are drawn from
Utf8Len(c) == IF c = EAcute THEN 2 ELSE 1

is_digit(c) == c \in Digits

is_alpha(c) == c \in Lower \/ c \in Upper \/ c = "_"

is_alpah_numeric(c) == is_alpha(c) \/ is_digit(c)

DigitVal(c) ==
    CASE c = "0" -> 0 [] c = "1" -> 1 [] c = "2" -> 2 [] c = "3" -> 3
      [] c = "4" -> 4 [] c = "5" -> 5 [] c = "6" -> 6 [] c = "7" -> 7
      [] c = "8" -> 8 [] c = "9" -> 9

(***************************************************************************)
(* The source as a Rust String: byte length, byte offsets, slices.         *)
(***************************************************************************)
RECURSIVE ByteOff(_, _)
\* byte offset of the k-th character (0-based) of src; ByteOff(src, Len(src))
\* is src.len()
ByteOff(src, k) ==
    IF k = 0 THEN 0 ELSE ByteOff(src, k - 1) + Utf8Len(src[k])

ByteLen(src) == ByteOff(src, Len(src))

\* source.chars().nth(k)
NthChar(src, k) == IF k < Len(src) THEN src[k + 1] ELSE None

IsCharBoundary(src, b) == \E k \in 0..Len(src) : ByteOff(src, k) = b

CharIndexOf(src, b) == CHOOSE k \in 0..Len(src) : ByteOff(src, k) = b

\* source[a..b].to_string(): ok and the text, or not ok (a panic) when a > b,
\* b is past the end or an offset is not a character boundary
Slice(src, a, b) ==
    IF a <= b /\ b <= ByteLen(src) /\ IsCharBoundary(src, a) /\ IsCharBoundary(src, b)
    THEN [ok |-> TRUE, text |-> SubSeq(src, CharIndexOf(src, a) + 1, CharIndexOf(src, b))]
    ELSE [ok |-> FALSE, text |-> <<>>]

(***************************************************************************)
(* Literal, Token and the keywords table.                                  *)
(***************************************************************************)
LiteralNone == [tag |-> "None"]

LiteralString(text) == [tag |-> "String", val |-> text]

LiteralInteger(n) == [tag |-> "Integer", val |-> n]

\* An f32 is named by the shortest decimal it is the nearest f32 of: mant /
\* 10^frac without trailing fractional zeros.  Decimals of at most 6
\* significant digits name distinct f32 values.
LiteralFloat(mant, frac) == [tag |-> "Float", mant |-> mant, frac |-> frac]

Token(token_type, lexeme, literal, ln) ==
    [token_type |-> token_type, lexeme |-> lexeme, literal |-> literal, line |-> ln]

\* the HashMap built in run(): keywords.get(text), None on a miss
KeywordsGet(text) ==
    CASE text = <<"f", "a", "l", "s", "e">> -> "False"
      [] text = <<"f", "o", "r">> -> "For"
      [] text = <<"f", "u", "n">> -> "Fun"
      [] text = <<"i", "f">> -> "If"
      [] text = <<"n", "i", "l">> -> "Nil"
      [] text = <<"o", "r">> -> "Or"
      [] text = <<"p", "r", "i", "n", "t">> -> "Print"
      [] text = <<"r", "e", "t", "u", "r", "n">> -> "Return"
      [] text = <<"s", "u", "p", "e", "r">> -> "Super"
      [] text = <<"t", "h", "i", "s">> -> "This"
      [] text = <<"t", "r", "u", "e">> -> "True"
      [] text = <<"v", "a", "r">> -> "Var"
      [] text = <<"w", "h", "i", "l", "e">> -> "While"
      [] OTHER -> None

(***************************************************************************)
(* str::trim and str::parse.                                               *)
(***************************************************************************)
I32Max == 2147483647

IsWhitespace(c) == c \in {" ", "\t", "\n", "\r"}

RECURSIVE TrimStart(_)
TrimStart(text) ==
    IF text # <<>> /\ IsWhitespace(Head(text)) THEN TrimStart(Tail(text)) ELSE text

RECURSIVE TrimEnd(_)
TrimEnd(text) ==
    IF text # <<>> /\ IsWhitespace(text[Len(text)])
    THEN TrimEnd(SubSeq(text, 1, Len(text) - 1))
    ELSE text

Trim(text) == TrimEnd(TrimStart(text))

AllDigits(text) == \A i \in 1..Len(text) : is_digit(text[i])

RECURSIVE ParseDigits(_, _)
\* the checked decimal accumulation of i32::from_str: the value of acc
\* followed by the digits of text, or -1 when it exceeds i32::MAX
ParseDigits(acc, text) ==
    IF text = <<>> THEN acc
    ELSE IF acc > (I32Max - DigitVal(Head(text))) \div 10 THEN -1
    ELSE ParseDigits(acc * 10 + DigitVal(Head(text)), Tail(text))

\* text.parse::<i32>(): Ok(value) or Err.  The sources of the model hold no
\* sign directly before a digit run, so the optional sign is left out.
ParseI32(text) ==
    IF text = <<>> \/ ~AllDigits(text) THEN [ok |-> FALSE, val |-> 0]
    ELSE LET v == ParseDigits(0, text)
         IN  IF v < 0 THEN [ok |-> FALSE, val |-> 0] ELSE [ok |-> TRUE, val |-> v]

RECURSIVE Normalize(_, _)
Normalize(mant, frac) ==
    IF frac > 0 /\ mant % 10 = 0 THEN Normalize(mant \div 10, frac - 1)
    ELSE LiteralFloat(mant, frac)

\* text.parse::<f32>() on a decimal without exponent: digits, an optional
\* '.', digits, with a digit on at least one side; never Err on magnitude
ParseF32(text) ==
    LET dots == {i \in 1..Len(text) : text[i] = "."}
    IN  IF text = <<>> \/ Cardinality(dots) > 1 \/ text = <<".">>
           \/ \E i \in 1..Len(text) : ~(is_digit(text[i]) \/ text[i] = ".")
        THEN [ok |-> FALSE, lit |-> LiteralNone]
        ELSE LET d == IF dots = {} THEN Len(text) + 1 ELSE CHOOSE i \in dots : TRUE
                 ds == SubSeq(text, 1, d - 1) \o SubSeq(text, d + 1, Len(text))
             IN  [ok |-> TRUE, lit |-> Normalize(ParseDigits(0, ds), IF dots = {} THEN 0 ELSE Len(text) - d)]

(***************************************************************************)
(* The scanner.  An operation takes and returns the record s of the        *)
(* mutable state: the Scanner's fields, the sink LOX (had_error, and the   *)
(* lines report prints), and whether the operation panicked.               *)
(***************************************************************************)
Scanner ==
    [tokens |-> tokens, start |-> start, current |-> current, line |-> line,
     had_error |-> had_error, reported |-> reported, panicked |-> FALSE]

Panicked(s) == [s EXCEPT !.panicked = TRUE]

\* report that flips the flag
report_toggle(s, ln, on, message) ==
    [s EXCEPT !.reported = Append(@, [line |-> ln, on |-> on, message |-> message]),
              !.had_error = ~@]

report(s, ln, on, message) ==
    [s EXCEPT !.reported = Append(@, [line |-> ln, on |-> on, message |-> message]),
              !.had_error = TRUE]

\* error that ends the run after the report
error_abort(s, ln, message) == Panicked(report(s, ln, "", message))

error(s, ln, message) == report(s, ln, "", message)

is_at_end(s) == s.current >= ByteLen(source)

\* the state after advance(); the character returned is NthChar(source, s.current)
advance(s) ==
    IF NthChar(source, s.current) = None THEN Panicked(s)
    ELSE [s EXCEPT !.current = @ + 1]

\* the character, NUL at end, or Panic (unwrap on None)
peek(s) ==
    IF is_at_end(s) THEN NUL
    ELSE IF NthChar(source, s.current) = None THEN Panic
    ELSE NthChar(source, s.current)

\* peek_next that looks at current, not one ahead
peek_next_same(s) ==
    IF is_at_end(s) THEN NUL
    ELSE IF NthChar(source, s.current) = None THEN Panic
    ELSE NthChar(source, s.current)

peek_next(s) ==
    IF s.current + 1 >= ByteLen(source) THEN NUL
    ELSE IF NthChar(source, s.current + 1) = None THEN Panic
    ELSE NthChar(source, s.current + 1)

\* match_token that consumes whatever follows
match_token_any(s, expected) == [ret |-> TRUE, s |-> [s EXCEPT !.current = @ + 1]]

\* match_token that returns true without consuming
match_token_stay(s, expected) ==
    IF is_at_end(s) THEN [ret |-> FALSE, s |-> s]
    ELSE IF NthChar(source, s.current) = None THEN [ret |-> FALSE, s |-> Panicked(s)]
    ELSE IF NthChar(source, s.current) # expected THEN [ret |-> FALSE, s |-> s]
    ELSE [ret |-> TRUE, s |-> s]

\* the returned bool and the state after match_token(expected)
match_token(s, expected) ==
    IF is_at_end(s) THEN [ret |-> FALSE, s |-> s]
    ELSE IF NthChar(source, s.current) = None THEN [ret |-> FALSE, s |-> Panicked(s)]
    ELSE IF NthChar(source, s.current) # expected THEN [ret |-> FALSE, s |-> s]
    ELSE [ret |-> TRUE, s |-> [s EXCEPT !.current = @ + 1]]

\* add_token that slices from the start of the source
add_token_from_zero(s, token_type, literal) ==
    LET text == Slice(source, 0, s.current)
    IN  IF ~text.ok THEN Panicked(s)
        ELSE [s EXCEPT !.tokens = Append(@, Token(token_type, text.text, literal, s.line))]

add_token(s, token_type, literal) ==
    LET text == Slice(source, s.start, s.current)
    IN  IF ~text.ok THEN Panicked(s)
        ELSE [s EXCEPT !.tokens = Append(@, Token(token_type, text.text, literal, s.line))]

RECURSIVE StringLoopNoLine(_)
\* StringLoop without the line increment at a newline
StringLoopNoLine(s) ==
    IF s.panicked THEN s
    ELSE LET p == peek(s)
         IN  IF p = Panic THEN Panicked(s)
             ELSE IF p # "\"" /\ ~is_at_end(s) THEN StringLoopNoLine(advance(s))
             ELSE s

RECURSIVE StringLoop(_)
\* while self.peek() != '"' && !self.is_at_end() { ... } of scan_string
StringLoop(s) ==
    IF s.panicked THEN s
    ELSE LET p == peek(s)
         IN  IF p = Panic THEN Panicked(s)
             ELSE IF p # "\"" /\ ~is_at_end(s)
             THEN StringLoop(advance(IF p = "\n" THEN [s EXCEPT !.line = @ + 1] ELSE s))
             ELSE s

scan_string(s) ==
    LET t == StringLoop(s)
    IN  IF t.panicked THEN t
        ELSE IF is_at_end(t) THEN error(t, t.line, "Unterminated string.")
        ELSE LET value == Slice(source, t.start + 1, t.current - 1)
             IN  IF ~value.ok THEN Panicked(t)
                 ELSE add_token(t, "String", LiteralString(value.text))

RECURSIVE DigitLoop(_)
\* while self.is_digit(self.peek()) { self.advance(); }
DigitLoop(s) ==
    IF s.panicked THEN s
    ELSE LET p == peek(s)
         IN  IF p = Panic THEN Panicked(s)
             ELSE IF is_digit(p) THEN DigitLoop(advance(s))
             ELSE s

number(s) ==
    LET a == DigitLoop(s)
    IN  IF a.panicked THEN a
        ELSE LET p == peek(a)
                 pn == IF p = "." THEN peek_next(a) ELSE NUL
             IN  IF p = Panic \/ pn = Panic THEN Panicked(a)
                 ELSE LET float_num == p = "." /\ is_digit(pn)
                          b == IF float_num THEN DigitLoop(advance(a)) ELSE a
                          value == Slice(source, b.start, b.current)
                      IN  IF b.panicked THEN b
                          ELSE IF ~value.ok THEN Panicked(b)
                          ELSE IF float_num
                          THEN LET f == ParseF32(Trim(value.text))
                               IN  IF f.ok THEN add_token(b, "Number", f.lit)
                                   ELSE Panicked(b)
                          ELSE LET n == ParseI32(Trim(value.text))
                               IN  IF n.ok THEN add_token(b, "Number", LiteralInteger(n.val))
                                   ELSE Panicked(b)

RECURSIVE AlphaLoop(_)
\* AlnumLoop with is_alpha in place of is_alpah_numeric
AlphaLoop(s) ==
    IF s.panicked THEN s
    ELSE LET p == peek(s)
         IN  IF p = Panic THEN Panicked(s)
             ELSE IF is_alpha(p) THEN AlphaLoop(advance(s))
             ELSE s

RECURSIVE AlnumLoop(_)
\* while self.is_alpah_numeric(self.peek()) { self.advance(); }
AlnumLoop(s) ==
    IF s.panicked THEN s
    ELSE LET p == peek(s)
         IN  IF p = Panic THEN Panicked(s)
             ELSE IF is_alpah_numeric(p) THEN AlnumLoop(advance(s))
             ELSE s

identifier(s) ==
    LET a == AlnumLoop(s)
        text == Slice(source, a.start, a.current)
    IN  IF a.panicked THEN a
        ELSE IF ~text.ok THEN Panicked(a)
        ELSE IF KeywordsGet(text.text) # None
        THEN add_token(a, KeywordsGet(text.text), LiteralNone)
        ELSE add_token(a, "Identifier", LiteralString(text.text))

RECURSIVE CommentLoopThroughNewline(_)
\* CommentLoop that also consumes the newline ending the comment
CommentLoopThroughNewline(s) ==
    IF s.panicked THEN s
    ELSE LET p == peek(s)
         IN  IF p = Panic THEN Panicked(s)
             ELSE IF ~is_at_end(s)
             THEN IF p = "\n" THEN advance(s) ELSE CommentLoopThroughNewline(advance(s))
             ELSE s

RECURSIVE CommentLoop(_)
\* while self.peek() != '\n' && !self.is_at_end() { self.advance(); }
CommentLoop(s) ==
    IF s.panicked THEN s
    ELSE LET p == peek(s)
         IN  IF p = Panic THEN Panicked(s)
             ELSE IF p # "\n" /\ ~is_at_end(s) THEN CommentLoop(advance(s))
             ELSE s

\* the token kind of a single-character punctuation arm
PunctType(c) ==
    CASE c = "(" -> "LeftParen" [] c = ")" -> "RightParen"
      [] c = "{" -> "LeftBrace" [] c = "}" -> "RightBrace"
      [] c = "," -> "Comma" [] c = "." -> "Dot" [] c = "-" -> "Minus"
      [] c = "+" -> "Plus" [] c = ";" -> "Semicolon" [] c = "*" -> "Star"

\* the token kinds of a one-or-two-character operator arm
OneCharType(c) ==
    CASE c = "!" -> "Bang" [] c = "=" -> "Equal" [] c = "<" -> "Less"
      [] c = ">" -> "Greater"

TwoCharType(c) ==
    CASE c = "!" -> "BangEqual" [] c = "=" -> "EqualEqual" [] c = "<" -> "LessEqual"
      [] c = ">" -> "GreaterEqual"

PunctChars == {"(", ")", "{", "}", ",", ".", "-", "+", ";", "*"}

OperatorChars == {"!", "=", "<", ">"}

BlankChars == {" ", "\r", "\t"}

\* operator that never looks for the '='
operator_one(s, c) == add_token(s, OneCharType(c), LiteralNone)

operator(s, c) ==
    LET m == match_token(s, "=")
    IN  IF m.s.panicked THEN m.s
        ELSE IF m.ret THEN add_token(m.s, TwoCharType(c), LiteralNone)
        ELSE add_token(m.s, OneCharType(c), LiteralNone)

slash(s) ==
    LET m == match_token(s, "/")
    IN  IF m.s.panicked THEN m.s
        ELSE IF m.ret THEN CommentLoop(m.s)
        ELSE add_token(m.s, "Slash", LiteralNone)

\* the arm of scan_token's match that takes character c
Arm(c) ==
    CASE c = None -> "none"
      [] c \in PunctChars -> "punct"
      [] c \in OperatorChars -> "operator"
      [] c = "/" -> "slash"
      [] c \in BlankChars -> "blank"
      [] c = "\n" -> "newline"
      [] c = "\"" -> "string"
      [] OTHER -> IF is_digit(c) THEN "number"
                  ELSE IF is_alpha(c) THEN "identifier"
                  ELSE "unexpected"

scan_token(s) ==
    LET c == NthChar(source, s.current)
        a == advance(s)
    IN  CASE Arm(c) = "none" -> a
          [] Arm(c) = "punct" -> add_token(a, PunctType(c), LiteralNone)
          [] Arm(c) = "operator" -> operator(a, c)
          [] Arm(c) = "slash" -> slash(a)
          [] Arm(c) = "blank" -> a
          [] Arm(c) = "newline" -> [a EXCEPT !.line = @ + 1]
          [] Arm(c) = "string" -> scan_string(a)
          [] Arm(c) = "number" -> number(a)
          [] Arm(c) = "identifier" -> identifier(a)
          [] Arm(c) = "unexpected" -> error(a, a.line, "Unexpected character.")

(***************************************************************************)
(* The source texts scanned.                                               *)
(***************************************************************************)
SeqsUpTo(A, n) == UNION {[1..k -> A] : k \in 0..n}

GeneralAlphabet == {"\"", "\n", "1", ".", "o", "r", "/", "@", EAcute}

OpAlphabet == {"!", "=", "<", ">", " ", "\t", "\r", "(", ";", "1"}

DigitAlphabet == {"1", "9"}

\* the literals around i32::MAX
BoundarySources ==
    {<<"2", "1", "4", "7", "4", "8", "3", "6", "4", "7">>,
     <<"2", "1", "4", "7", "4", "8", "3", "6", "4", "8">>,
     <<"2", "1", "4", "7", "4", "8", "3", "6", "4", "8", ";">>}

\* every keyword kind's spelling, and spellings near a keyword
WordSources ==
    {<<"a", "n", "d">>, <<"c", "l", "a", "s", "s">>, <<"e", "l", "s", "e">>,
     <<"f", "a", "l", "s", "e">>, <<"f", "o", "r">>, <<"f", "u", "n">>,
     <<"i", "f">>, <<"n", "i", "l">>, <<"o", "r">>,
     <<"p", "r", "i", "n", "t">>, <<"r", "e", "t", "u", "r", "n">>,
     <<"s", "u", "p", "e", "r">>, <<"t", "h", "i", "s">>,
     <<"t", "r", "u", "e">>, <<"v", "a", "r">>, <<"w", "h", "i", "l", "e">>,
     <<"I", "f">>, <<"O", "R">>, <<"w", "h", "i", "l", "e", "x">>,
     <<"o", "r", "_">>, <<"_", "o", "r">>, <<"n", "i", "l", "1">>,
     <<"F", "o", "r">>}

Sources ==
    SeqsUpTo(GeneralAlphabet, MaxLen) \cup SeqsUpTo(OpAlphabet, MaxOpLen)
        \cup SeqsUpTo(PunctChars, MaxPunctLen) \cup SeqsUpTo(DigitAlphabet, MaxDigits)
        \cup BoundarySources \cup WordSources

(***************************************************************************)
(* run(): the Scanner as constructed, LOX as initialised.                  *)
(***************************************************************************)
Init ==
    /\ source \in Sources
    /\ tokens = <<>>
    /\ start = 0
    /\ current = 0
    /\ line = 1
    /\ had_error = FALSE
    /\ reported = <<>>
    /\ pc = "scanning"
    /\ runs = 1
    /\ iterations = 0

\* the state the operation leaves, written back; iterations counts the calls
\* of scan_token the loop of scan_tokens has made
Apply(s) ==
    /\ tokens' = s.tokens
    /\ start' = s.start
    /\ current' = s.current
    /\ line' = s.line
    /\ had_error' = s.had_error
    /\ reported' = s.reported
    /\ pc' = IF s.panicked THEN "panicked" ELSE "scanning"
    /\ iterations' = iterations + 1
    /\ UNCHANGED <<source, runs>>

\* The state at the call of scan_token in the loop of scan_tokens.
IterationStart == [Scanner EXCEPT !.start = current]

\* one iteration of the loop of scan_tokens: a single-character punctuation arm
ScanPunct ==
    /\ pc = "scanning"
    /\ ~is_at_end(Scanner)
    /\ Arm(NthChar(source, current)) = "punct"
    /\ Apply(scan_token(IterationStart))

\* one iteration of the loop of scan_tokens: a '!', '=', '<' or '>' arm
ScanOperator ==
    /\ pc = "scanning"
    /\ ~is_at_end(Scanner)
    /\ Arm(NthChar(source, current)) = "operator"
    /\ Apply(scan_token(IterationStart))

\* one iteration of the loop of scan_tokens: the '/' arm
ScanSlash ==
    /\ pc = "scanning"
    /\ ~is_at_end(Scanner)
    /\ Arm(NthChar(source, current)) = "slash"
    /\ Apply(scan_token(IterationStart))

\* one iteration of the loop of scan_tokens: a ' ', '\r' or '\t' arm
ScanBlank ==
    /\ pc = "scanning"
    /\ ~is_at_end(Scanner)
    /\ Arm(NthChar(source, current)) = "blank"
    /\ Apply(scan_token(IterationStart))

\* one iteration of the loop of scan_tokens: the '\n' arm
ScanNewline ==
    /\ pc = "scanning"
    /\ ~is_at_end(Scanner)
    /\ Arm(NthChar(source, current)) = "newline"
    /\ Apply(scan_token(IterationStart))

\* one iteration of the loop of scan_tokens: the '"' arm: scan_string
ScanString ==
    /\ pc = "scanning"
    /\ ~is_at_end(Scanner)
    /\ Arm(NthChar(source, current)) = "string"
    /\ Apply(scan_token(IterationStart))

\* one iteration of the loop of scan_tokens: the digit case: number
ScanNumber ==
    /\ pc = "scanning"
    /\ ~is_at_end(Scanner)
    /\ Arm(NthChar(source, current)) = "number"
    /\ Apply(scan_token(IterationStart))

\* one iteration of the loop of scan_tokens: the alphabetic case: identifier
ScanIdentifier ==
    /\ pc = "scanning"
    /\ ~is_at_end(Scanner)
    /\ Arm(NthChar(source, current)) = "identifier"
    /\ Apply(scan_token(IterationStart))

\* one iteration of the loop of scan_tokens: the case that reports "Unexpected character."
ScanUnexpected ==
    /\ pc = "scanning"
    /\ ~is_at_end(Scanner)
    /\ Arm(NthChar(source, current)) = "unexpected"
    /\ Apply(scan_token(IterationStart))

\* one iteration of the loop of scan_tokens: advance() at a position chars() does not reach, unwrap on None
AdvancePanic ==
    /\ pc = "scanning"
    /\ ~is_at_end(Scanner)
    /\ Arm(NthChar(source, current)) = "none"
    /\ Apply(scan_token(IterationStart))

\* Finish with the Eof token on the line after the last one
FinishNextLine ==
    /\ pc = "scanning"
    /\ is_at_end(Scanner)
    /\ tokens' = Append(tokens, Token("Eof", <<>>, LiteralNone, line + 1))
    /\ pc' = "done"
    /\ UNCHANGED <<source, start, current, line, had_error, reported, runs,
                   iterations>>

\* the loop of scan_tokens ends: push the Eof token and return
Finish ==
    /\ pc = "scanning"
    /\ is_at_end(Scanner)
    /\ tokens' = Append(tokens, Token("Eof", <<>>, LiteralNone, line))
    /\ pc' = "done"
    /\ UNCHANGED <<source, start, current, line, had_error, reported, runs,
                   iterations>>

Next ==
    \/ ScanPunct
    \/ ScanOperator
    \/ ScanSlash
    \/ ScanBlank
    \/ ScanNewline
    \/ ScanString
    \/ ScanNumber
    \/ ScanIdentifier
    \/ ScanUnexpected
    \/ AdvancePanic
    \/ Finish

Spec == Init /\ [][Next]_vars

(***************************************************************************)
(* A process that calls run() again after a scan has returned: a new       *)
(* Scanner is constructed, the static LOX stays as the scans before left   *)
(* it.                                                                     *)
(***************************************************************************)
RerunSources == {<<>>, <<"1">>, <<"@">>, <<"o", "r">>}

RunAgain ==
    /\ pc = "done"
    /\ runs < MaxRuns
    /\ source' \in RerunSources
    /\ tokens' = <<>>
    /\ start' = 0
    /\ current' = 0
    /\ line' = 1
    /\ pc' = "scanning"
    /\ runs' = runs + 1
    /\ iterations' = 0
    /\ UNCHANGED <<had_error, reported>>

NextRuns ==
    \/ Next
    \/ RunAgain

SpecRuns == Init /\ [][NextRuns]_vars

(***************************************************************************)
(* Notions the properties are stated in.  A position counts characters     *)
(* from 0, as current does; the character at position p is source[p + 1].  *)
(***************************************************************************)
Last(seq) == seq[Len(seq)]

IsAscii(src) == \A i \in 1..Len(src) : Utf8Len(src[i]) = 1

AlnumChars == Lower \cup Upper \cup Digits \cup {"_"}

\* number of newline characters among the first p characters
NewlinesBefore(src, p) ==
    Cardinality({i \in 1..Len(src) : i <= p /\ src[i] = "\n"})

\* the 1-based line on which the character at position p occurs
LineOfChar(src, p) == 1 + NewlinesBefore(src, p)

\* the position after the maximal run of characters of S that starts at p
RunEnd(src, p, S) ==
    CHOOSE e \in p..Len(src) :
        /\ \A i \in (p + 1)..e : src[i] \in S
        /\ e = Len(src) \/ src[e + 1] \notin S

\* a scan_token call is about to take the character at current
AtChar == pc = "scanning" /\ ~is_at_end(Scanner) /\ current < Len(source)

\* positions after current that hold a '"'
QuotesAfter == {q \in (current + 1)..(Len(source) - 1) : source[q + 1] = "\""}

\* the position of the '"' closing the literal that opens at current
ClosingQuote == CHOOSE q \in QuotesAfter : \A r \in QuotesAfter : q <= r

(***************************************************************************)
(* C1: a string literal that opens at current and is closed before the end *)
(* of input (stated for sources of one-byte characters) makes scan_string  *)
(* push exactly one String token: its literal is the text strictly between *)
(* the quotes, its lexeme runs from the opening through the closing quote, *)
(* and current is left at the character after the closing quote.           *)
(***************************************************************************)
C1_ClosedStringTokenized ==
    [][(AtChar /\ IsAscii(source) /\ source[current + 1] = "\"" /\ QuotesAfter # {})
         => /\ pc' = "scanning"
            /\ Len(tokens') = Len(tokens) + 1
            /\ SubSeq(tokens', 1, Len(tokens)) = tokens
            /\ Last(tokens').token_type = "String"
            /\ Last(tokens').literal
                 = LiteralString(SubSeq(source, current + 2, ClosingQuote))
            /\ Last(tokens').lexeme = SubSeq(source, current + 1, ClosingQuote + 1)
            /\ current' = ClosingQuote + 1]_vars

(***************************************************************************)
(* C2: a string literal that opens at current and is not closed before the *)
(* end of input (stated for sources of one-byte characters) makes the scan *)
(* report exactly one "Unterminated string." diagnostic at the line of the *)
(* opening quote and push no token; the scan goes on to the Eof step.      *)
(***************************************************************************)
C2_UnterminatedAtStartLine ==
    [][(AtChar /\ IsAscii(source) /\ source[current + 1] = "\"" /\ QuotesAfter = {})
         => /\ pc' = "scanning"
            /\ is_at_end(Scanner)'
            /\ tokens' = tokens
            /\ reported' = Append(reported,
                   [line |-> line, on |-> "", message |-> "Unterminated string."])
            /\ had_error']_vars

\* an integer literal (no fractional part) starts at current and its value
\* exceeds i32::MAX
OverflowingIntegerAtCurrent ==
    /\ AtChar
    /\ IsAscii(source)
    /\ source[current + 1] \in Digits
    /\ LET e == RunEnd(source, current, Digits)
       IN  /\ ~(e + 2 <= Len(source) /\ source[e + 1] = "." /\ source[e + 2] \in Digits)
           /\ ParseDigits(0, SubSeq(source, current + 1, e)) = -1

(***************************************************************************)
(* C3: an integer literal above the 32-bit signed maximum makes number()   *)
(* report one diagnostic to the sink, and the scan continues after the     *)
(* literal: it is not aborted.                                             *)
(***************************************************************************)
C3_OverflowIsDiagnosed ==
    [][OverflowingIntegerAtCurrent
         => /\ pc' = "scanning"
            /\ had_error'
            /\ Len(reported') = Len(reported) + 1
            /\ current' = RunEnd(source, current, Digits)]_vars

(***************************************************************************)
(* C4: no source text makes the scan abort before the step that appends    *)
(* the end-of-input token.                                                 *)
(***************************************************************************)
C4_ScanNeverAborts == pc # "panicked"

\* the position of the newline ending a line comment whose text starts at p,
\* or the end of input
CommentEnd(src, p) ==
    CHOOSE e \in p..Len(src) :
        /\ \A i \in (p + 1)..e : src[i] # "\n"
        /\ e = Len(src) \/ src[e + 1] = "\n"

\* positions at or after p that hold a '"'
QuotesFrom(src, p) == {q \in p..(Len(src) - 1) : src[q + 1] = "\""}

RECURSIVE ValidFrom(_, _)
\* src from position p on is a sequence of valid lexemes: punctuation,
\* operators, comments, whitespace, terminated string literals, in-range
\* numbers, identifiers and keywords
ValidFrom(src, p) ==
    IF p >= Len(src) THEN TRUE
    ELSE LET c == src[p + 1]
         IN  IF c \in PunctChars \cup OperatorChars \cup BlankChars \cup {"\n"}
             THEN ValidFrom(src, p + 1)
             ELSE IF c = "/"
             THEN IF p + 1 < Len(src) /\ src[p + 2] = "/"
                  THEN ValidFrom(src, CommentEnd(src, p + 2))
                  ELSE ValidFrom(src, p + 1)
             ELSE IF c = "\""
             THEN /\ QuotesFrom(src, p + 1) # {}
                  /\ ValidFrom(src, 1 + CHOOSE q \in QuotesFrom(src, p + 1) :
                                          \A r \in QuotesFrom(src, p + 1) : q <= r)
             ELSE IF c \in Digits
             THEN LET e == RunEnd(src, p, Digits)
                  IN  IF e + 2 <= Len(src) /\ src[e + 1] = "." /\ src[e + 2] \in Digits
                      THEN ValidFrom(src, RunEnd(src, e + 1, Digits))
                      ELSE /\ ParseDigits(0, SubSeq(src, p + 1, e)) # -1
                           /\ ValidFrom(src, e)
             ELSE IF is_alpha(c)
             THEN ValidFrom(src, RunEnd(src, p, AlnumChars))
             ELSE FALSE

(***************************************************************************)
(* C5: the scan of a source made only of valid lexemes reports no          *)
(* diagnostic (had_error stays false), and the token sequence it returns   *)
(* ends with the end-of-input token.                                       *)
(***************************************************************************)
C5_ValidSourceNoDiagnostics ==
    ValidFrom(source, 0)
        => /\ ~had_error
           /\ reported = <<>>
           /\ pc = "done" => Last(tokens).token_type = "Eof"

(***************************************************************************)
(* C6: positions are measured in one unit, also with multi-byte            *)
(* characters: while is_at_end is false current is the position of a       *)
(* character of the source, and the lexeme of every token pushed is the    *)
(* text of the characters from start up to current.                        *)
(***************************************************************************)
C6_OneUnitOfPosition ==
    /\ [](pc = "scanning" /\ ~is_at_end(Scanner) => current < Len(source))
    /\ [][(pc' = "scanning" /\ Len(tokens') = Len(tokens) + 1)
            => Last(tokens').lexeme = SubSeq(source, start' + 1, current')]_vars

(***************************************************************************)
(* C7: the line of every token pushed by scan_token is the line on which   *)
(* the token's first character (the one at start) occurs, String tokens    *)
(* that span several lines included.                                       *)
(***************************************************************************)
C7_TokenLineIsFirstCharLine ==
    [][(pc' = "scanning" /\ Len(tokens') = Len(tokens) + 1)
         => Last(tokens').line = LineOfChar(source, start')]_vars

(***************************************************************************)
(* C8: the line counter is one plus the number of newlines among the       *)
(* characters consumed so far, wherever they occur, so the line of the     *)
(* end-of-input token is the number of newlines of the source plus one.    *)
(***************************************************************************)
C8_LineCountsNewlines ==
    /\ line = 1 + NewlinesBefore(source, current)
    /\ pc = "done" => Last(tokens).line = 1 + NewlinesBefore(source, Len(source))

\* a scan that ended with a newline inside a String token and one after it
C8_Witness ==
    /\ pc = "done"
    /\ line = 3
    /\ \E i \in 1..Len(tokens) :
          /\ tokens[i].token_type = "String"
          /\ \E k \in 1..Len(tokens[i].lexeme) : tokens[i].lexeme[k] = "\n"

\* the shape of the returned sequence, but for the line of its last element
C9_Shape ==
    /\ Len(tokens) >= 1
    /\ Last(tokens).token_type = "Eof"
    /\ Last(tokens).lexeme = <<>>
    /\ \A i \in 1..(Len(tokens) - 1) : tokens[i].token_type # "Eof"
    /\ \A i \in 1..(Len(tokens) - 1) : tokens[i].line <= tokens[i + 1].line

\* a token is pushed behind the tokens pushed before, and its characters
\* start where the characters consumed before end
C9_Order ==
    Len(tokens') > Len(tokens)
        => /\ Len(tokens') = Len(tokens) + 1
           /\ SubSeq(tokens', 1, Len(tokens)) = tokens
           /\ pc' = "scanning" => (start' = current /\ current' > start')

(***************************************************************************)
(* C9 as stated: the returned sequence is in source order with             *)
(* non-decreasing lines and holds exactly one end-of-input token, the last *)
(* element, with an empty lexeme and the line of the last character of the *)
(* source (1 for empty input).                                             *)
(***************************************************************************)
C9_EofOnLineOfLastChar ==
    pc = "done"
        => /\ C9_Shape
           /\ Last(tokens).line
                = IF source = <<>> THEN 1 ELSE LineOfChar(source, Len(source) - 1)

(***************************************************************************)
(* C9 as amended: the same, with the line of the end-of-input token the    *)
(* line counter after the last character: the line of the last character,  *)
(* plus one when that character is a newline (1 for empty input).          *)
(***************************************************************************)
C9_EofOnLineAfterLastChar ==
    /\ [](pc = "done"
            => /\ C9_Shape
               /\ Last(tokens).line
                    = IF source = <<>> THEN 1
                      ELSE LineOfChar(source, Len(source) - 1)
                             + (IF Last(source) = "\n" THEN 1 ELSE 0))
    /\ [][C9_Order]_vars

\* a returned sequence of at least two tokens on different lines, of a source
\* that ends with a newline
C9_Witness ==
    /\ pc = "done"
    /\ Len(tokens) >= 3
    /\ tokens[1].line < tokens[2].line
    /\ Last(source) = "\n"

(***************************************************************************)
(* C10: identifier() consumes the maximal run of alphanumeric-or-underscore *)
(* characters; a lexeme that is a key of the keywords table is pushed with *)
(* that keyword's kind and literal None, any other lexeme as an Identifier *)
(* whose String literal is the lexeme.  The lookup is case-sensitive and   *)
(* takes the whole lexeme: "while" is While, "whilex" and any lexeme with  *)
(* an upper-case letter are Identifiers.                                   *)
(***************************************************************************)
C10_IdentifierOrKeyword ==
    [][(AtChar /\ is_alpha(source[current + 1]) /\ pc' = "scanning")
         => /\ current' = RunEnd(source, current, AlnumChars)
            /\ Len(tokens') = Len(tokens) + 1
            /\ IsAscii(source)
                 => Last(tokens').lexeme = SubSeq(source, current + 1, current')
            /\ LET tok == Last(tokens')
               IN  IF KeywordsGet(tok.lexeme) # None
                   THEN /\ tok.token_type = KeywordsGet(tok.lexeme)
                        /\ tok.literal = LiteralNone
                   ELSE /\ tok.token_type = "Identifier"
                        /\ tok.literal = LiteralString(tok.lexeme)
            /\ (\E k \in 1..Len(Last(tokens').lexeme) : Last(tokens').lexeme[k] \in Upper)
                 => Last(tokens').token_type = "Identifier"
            /\ Last(tokens').lexeme = <<"w", "h", "i", "l", "e">>
                 => Last(tokens').token_type = "While"
            /\ Last(tokens').lexeme = <<"w", "h", "i", "l", "e", "x">>
                 => Last(tokens').token_type = "Identifier"]_vars

\* a returned sequence that holds a keyword token and an Identifier token
C10_Witness ==
    /\ pc = "done"
    /\ \E i \in 1..Len(tokens) : tokens[i].token_type = "Or"
    /\ \E i \in 1..Len(tokens) : tokens[i].token_type = "Identifier"

\* a fractional part follows the digit run that ends at position e
FractionAt(src, e) ==
    e + 2 <= Len(src) /\ src[e + 1] = "." /\ src[e + 2] \in Digits

\* the position after the numeric literal that starts at position p
NumberEnd(src, p) ==
    LET e == RunEnd(src, p, Digits)
    IN  IF FractionAt(src, e) THEN RunEnd(src, e + 1, Digits) ELSE e

(***************************************************************************)
(* C11: a number() call that returns has consumed the maximal digit run    *)
(* and, only when a '.' and then a digit follow it, the '.' and a further  *)
(* maximal digit run; the Number token's literal is tagged Float iff the   *)
(* fractional part was consumed, Integer otherwise.  A '.' left behind a   *)
(* Number token (the last character of the source included) is pushed as   *)
(* the Dot token that follows it.                                          *)
(***************************************************************************)
C11_NumberAndDot ==
    /\ [][(AtChar /\ source[current + 1] \in Digits /\ pc' = "scanning")
            => /\ current' = NumberEnd(source, current)
               /\ Len(tokens') = Len(tokens) + 1
               /\ Last(tokens').token_type = "Number"
               /\ Last(tokens').literal.tag
                    = IF FractionAt(source, RunEnd(source, current, Digits))
                      THEN "Float" ELSE "Integer"
               /\ IsAscii(source)
                    => Last(tokens').lexeme = SubSeq(source, current + 1, current')]_vars
    /\ [][(/\ AtChar
           /\ source[current + 1] = "."
           /\ current >= 1
           /\ source[current] \in Digits
           /\ start < current
           /\ Len(tokens) > 0
           /\ Last(tokens).token_type = "Number"
           /\ pc' = "scanning")
            => /\ Len(tokens') = Len(tokens) + 1
               /\ SubSeq(tokens', 1, Len(tokens)) = tokens
               /\ Last(tokens').token_type = "Dot"
               /\ current' = current + 1]_vars

\* a returned sequence that starts with a Float Number token followed by the
\* Dot token of a '.' that ends the source
C11_Witness ==
    /\ pc = "done"
    /\ Len(tokens) = 3
    /\ tokens[1].token_type = "Number"
    /\ tokens[1].literal.tag = "Float"
    /\ tokens[2].token_type = "Dot"
    /\ Last(source) = "."

\* the token kind of operator character c, followed by '=' (two) or not
OperatorKind(c, two) ==
    CASE c = "!" -> IF two THEN "BangEqual" ELSE "Bang"
      [] c = "=" -> IF two THEN "EqualEqual" ELSE "Equal"
      [] c = "<" -> IF two THEN "LessEqual" ELSE "Less"
      [] c = ">" -> IF two THEN "GreaterEqual" ELSE "Greater"

(***************************************************************************)
(* C12: at '!', '=', '<' or '>' the scanner pushes the two-character token *)
(* with a two-character lexeme iff the next character is '=', otherwise    *)
(* (also at the end of input) the one-character token with a one-character *)
(* lexeme; no diagnostic is reported.                                      *)
(***************************************************************************)
C12_OneOrTwoCharOperator ==
    [][(AtChar /\ source[current + 1] \in {"!", "=", "<", ">"} /\ pc' = "scanning")
         => LET two == current + 1 < Len(source) /\ source[current + 2] = "="
            IN  /\ Len(tokens') = Len(tokens) + 1
                /\ Last(tokens').token_type = OperatorKind(source[current + 1], two)
                /\ Last(tokens').literal = LiteralNone
                /\ Len(Last(tokens').lexeme) = IF two THEN 2 ELSE 1
                /\ IsAscii(source)
                     => Last(tokens').lexeme = SubSeq(source, current + 1, current')
                /\ current' = current + (IF two THEN 2 ELSE 1)
                /\ reported' = reported
                /\ had_error' = had_error]_vars

\* a returned sequence with a two-character and then a one-character operator
C12_Witness ==
    /\ pc = "done"
    /\ Len(tokens) = 3
    /\ tokens[1].token_type = "LessEqual"
    /\ tokens[2].token_type = "Less"
    /\ ~had_error

\* the newline before current ends a line comment that starts outside any
\* string literal
JustAfterComment ==
    /\ current >= 3
    /\ source[current] = "\n"
    /\ \E p \in 0..(current - 3) :
          /\ source[p + 1] = "/"
          /\ source[p + 2] = "/"
          /\ CommentEnd(source, p + 2) = current - 1
          /\ \A i \in 1..p : source[i] # "\""

(***************************************************************************)
(* C13: a '/' followed by a second '/' starts a line comment: the          *)
(* characters up to but not including the next newline (or up to the end   *)
(* of input) are consumed, no token is pushed and no diagnostic reported;  *)
(* a '/' not followed by '/' pushes a Slash token.  A token that starts    *)
(* right after the newline ending the comment, and lies on one line,       *)
(* carries the line after the comment's.                                   *)
(***************************************************************************)
C13_LineComment ==
    /\ [][(AtChar /\ source[current + 1] = "/" /\ pc' = "scanning")
            => IF current + 1 < Len(source) /\ source[current + 2] = "/"
               THEN /\ tokens' = tokens
                    /\ reported' = reported
                    /\ had_error' = had_error
                    /\ line' = line
                    /\ current' = CommentEnd(source, current + 2)
               ELSE /\ Len(tokens') = Len(tokens) + 1
                    /\ Last(tokens').token_type = "Slash"
                    /\ Last(tokens').literal = LiteralNone
                    /\ current' = current + 1]_vars
    /\ [][(/\ AtChar
           /\ JustAfterComment
           /\ pc' = "scanning"
           /\ Len(tokens') = Len(tokens) + 1
           /\ \A i \in (current + 1)..current' : source[i] # "\n")
            => Last(tokens').line = LineOfChar(source, current - 1) + 1]_vars

\* a returned sequence whose only token but Eof follows a comment line
C13_Witness ==
    /\ pc = "done"
    /\ Len(source) >= 4
    /\ source[1] = "/"
    /\ source[2] = "/"
    /\ Len(tokens) = 2
    /\ tokens[1].token_type = "Number"
    /\ tokens[1].line = 2
    /\ ~had_error

\* c begins no valid token
Unexpected(c) ==
    c \notin PunctChars \cup OperatorChars \cup BlankChars \cup AlnumChars
               \cup {"/", "\n", "\""}

\* c is neither skipped nor reported: it belongs to a token
InToken(c) == ~Unexpected(c) /\ c \notin BlankChars \cup {"\n"}

\* a source without string literals, comments and multi-byte characters
PlainSource ==
    IsAscii(source) /\ \A i \in 1..Len(source) : source[i] \notin {"\"", "/"}

RECURSIVE ConcatLexemes(_)
ConcatLexemes(toks) ==
    IF toks = <<>> THEN <<>> ELSE Head(toks).lexeme \o ConcatLexemes(Tail(toks))

(***************************************************************************)
(* C14: a character that begins no valid token makes the scanner report    *)
(* one "Unexpected character." diagnostic with the current line and push   *)
(* no token; the scan continues with the next character, so that in one    *)
(* pass every such character is reported and every other lexeme tokenized. *)
(***************************************************************************)
C14_UnexpectedCharacter ==
    /\ [][(AtChar /\ Unexpected(source[current + 1]))
            => /\ pc' = "scanning"
               /\ tokens' = tokens
               /\ reported' = Append(reported,
                      [line |-> line, on |-> "", message |-> "Unexpected character."])
               /\ had_error'
               /\ line' = line
               /\ current' = current + 1]_vars
    /\ []((pc = "done" /\ PlainSource)
            => /\ Len(reported) = Cardinality({i \in 1..Len(source) : Unexpected(source[i])})
               /\ \A k \in 1..Len(reported) :
                     reported[k].message = "Unexpected character."
               /\ ConcatLexemes(tokens) = SelectSeq(source, InToken))

\* a completed scan that reported two unexpected characters and tokenized
\* the lexemes behind each
C14_Witness ==
    /\ pc = "done"
    /\ PlainSource
    /\ Len(reported) = 2
    /\ Len(tokens) = 3
    /\ Unexpected(source[1])
    /\ ~Unexpected(Last(source))

(***************************************************************************)
(* C15: the had-error indicator belongs to one scan: when a scan has       *)
(* returned it is true iff that scan raised a diagnostic, also when an     *)
(* earlier scan of the process raised one.  Stated for sources of one-byte *)
(* characters without strings and comments, whose scan raises a diagnostic *)
(* iff the source holds a character that begins no token.                  *)
(***************************************************************************)
C15_FlagBelongsToScan ==
    (pc = "done" /\ PlainSource)
        => (had_error <=> \E i \in 1..Len(source) : Unexpected(source[i]))

(***************************************************************************)
(* C16: the sink is an outbound channel: a scanner step never sets         *)
(* had_error back to false, a step that reports sets it to true and a step *)
(* that reports nothing leaves it unchanged.                               *)
(***************************************************************************)
C16_HadErrorMonotone ==
    [][/\ had_error => had_error'
       /\ reported' # reported => had_error'
       /\ reported' = reported => had_error' = had_error
       /\ Len(reported') >= Len(reported)
       /\ SubSeq(reported', 1, Len(reported)) = reported]_vars

\* a scan that has reported twice
C16_Witness == Len(reported) = 2 /\ had_error /\ pc = "done"

(***************************************************************************)
(* C17: in every state of a scan start <= current <= len(source), all      *)
(* three counted in characters (and len(source) in characters is at most   *)
(* source.len(), its length in bytes).                                     *)
(***************************************************************************)
C17_StartCurrentLen ==
    /\ 0 <= start
    /\ start <= current
    /\ current <= Len(source)
    /\ Len(source) <= ByteLen(source)

\* a scan in the middle of the source, behind a lexeme of several characters
C17_Witness ==
    /\ pc = "scanning"
    /\ 0 < start
    /\ start + 1 < current
    /\ current < Len(source)

\* the state in which the '!', '=', '<', '>' or '/' arm calls match_token
MatchCallState == advance(IterationStart)

\* the character that arm expects
MatchExpected == IF source[current + 1] = "/" THEN "/" ELSE "="

(***************************************************************************)
(* C18: at every call, match_token(expected) returns true and increments   *)
(* current by exactly one iff the scanner is not at end and the character  *)
(* at current is expected; at end, or at a different character, it returns *)
(* false and leaves current, start, line and tokens (the whole state)      *)
(* unchanged.                                                              *)
(***************************************************************************)
C18_MatchToken ==
    (AtChar /\ source[current + 1] \in {"!", "=", "<", ">", "/"})
        => LET s == MatchCallState
               m == match_token(s, MatchExpected)
           IN  IF ~is_at_end(s) /\ s.current < Len(source)
                    /\ source[s.current + 1] = MatchExpected
               THEN m.ret /\ m.s = [s EXCEPT !.current = s.current + 1]
               ELSE (is_at_end(s) \/ s.current < Len(source))
                       => (~m.ret /\ m.s = s)

\* match_token has returned true in an operator arm and, in the iteration
\* after, false at the end of the source
C18_Witness ==
    /\ pc = "scanning"
    /\ Len(tokens) = 2
    /\ tokens[1].token_type = "EqualEqual"
    /\ tokens[2].token_type = "Equal"
    /\ current = start + 1
    /\ is_at_end(Scanner)

\* the keyword kinds of TokenType with their lower-case spellings
KeywordKinds ==
    {<<"And", <<"a", "n", "d">>>>, <<"Class", <<"c", "l", "a", "s", "s">>>>,
     <<"Else", <<"e", "l", "s", "e">>>>, <<"False", <<"f", "a", "l", "s", "e">>>>,
     <<"Fun", <<"f", "u", "n">>>>, <<"For", <<"f", "o", "r">>>>,
     <<"If", <<"i", "f">>>>, <<"Nil", <<"n", "i", "l">>>>, <<"Or", <<"o", "r">>>>,
     <<"Print", <<"p", "r", "i", "n", "t">>>>,
     <<"Return", <<"r", "e", "t", "u", "r", "n">>>>,
     <<"Super", <<"s", "u", "p", "e", "r">>>>, <<"This", <<"t", "h", "i", "s">>>>,
     <<"True", <<"t", "r", "u", "e">>>>, <<"Var", <<"v", "a", "r">>>>,
     <<"While", <<"w", "h", "i", "l", "e">>>>}

(***************************************************************************)
(* C19: every keyword kind of TokenType is emitted: the scan of a source   *)
(* that is the kind's lower-case spelling returns a token of that kind,    *)
(* not an Identifier.                                                      *)
(***************************************************************************)
C19_EveryKeywordKindEmitted ==
    \A kw \in KeywordKinds :
        (pc = "done" /\ source = kw[2])
            => /\ Len(tokens) = 2
               /\ tokens[1].token_type = kw[1]

(***************************************************************************)
(* C20: an iteration of the loop of scan_tokens that returns has increased *)
(* current by at least one and pushed at most one token, behind the tokens *)
(* pushed before; the token's lexeme is non-empty and is                   *)
(* source[start..current], a range that starts where the characters        *)
(* consumed before end.  The loop makes at most len(source) iterations.    *)
(***************************************************************************)
C20_IterationProgress ==
    /\ [][(pc = "scanning" /\ pc' = "scanning")
            => /\ iterations' = iterations + 1
               /\ current' >= current + 1
               /\ start' = current
               /\ Len(tokens') <= Len(tokens) + 1
               /\ SubSeq(tokens', 1, Len(tokens)) = tokens
               /\ Len(tokens') = Len(tokens) + 1
                    => /\ Last(tokens').lexeme # <<>>
                       /\ Slice(source, start', current').ok
                       /\ Last(tokens').lexeme = Slice(source, start', current').text]_vars
    /\ [](/\ iterations <= ByteLen(source)
          /\ pc # "panicked" => iterations <= current
          /\ pc = "done" => \A i \in 1..(Len(tokens) - 1) : tokens[i].lexeme # <<>>)

\* a returned sequence of two tokens of several characters each
C20_Witness ==
    /\ pc = "done"
    /\ Len(tokens) = 3
    /\ Len(tokens[1].lexeme) >= 2
    /\ Len(tokens[2].lexeme) >= 2
    /\ iterations < Len(source)

====
